---- MODULE Spec2Model ----
(***************************************************************************)
(* Model of the HTTP authentication middleware of actix-web-httpauth       *)
(* (src/src/middleware.rs).                                                *)
(*                                                                         *)
(* One AuthenticationMiddleware instance wraps one downstream service      *)
(* behind a futures_locks::Mutex.  Every call() builds a future            *)
(*    extract(req) .and_then(process_fn) .and_then(lock -> service.call)   *)
(* The model follows each such future through its suspension points: the   *)
(* validator future, the MutexFut (lock acquisition) and the downstream    *)
(* future.  poll_ready takes the same mutex around the downstream          *)
(* service's poll_ready.  The mutex operations are atomic sections of      *)
(* their own, and the steps of the calls and of poll_ready interleave      *)
(* freely, which covers the cooperative single-thread schedule and a       *)
(* multi-thread one.                                                       *)
(***************************************************************************)
EXTENDS Naturals, Sequences, FiniteSets, TLC

\* Number of call() futures created on the one middleware instance.
NumCalls == 3

Calls == 1..NumCalls

VARIABLES
    scheme,         \* the extractor type parameter T: "Basic" or "Bearer"
    stage,          \* per call: where its future stands
    req,            \* per call: the ServiceRequest given to call()
    creds,          \* per call: the credentials handed to process_fn
    valResult,      \* per call: what the validator future resolved to
    downResult,     \* per call: what the downstream future resolved to
    outcome,        \* per call: what the call's future resolved to
    validatorCalls, \* per call: number of invocations of process_fn
    handlerCalls,   \* per call: number of invocations of service.call
    lockReq,        \* per call: inner.lock() has been called
    cancelledAt,    \* per call: the stage at which its future was dropped
    owned,          \* futures_locks mutex: the owned flag
    waiters,        \* futures_locks mutex: queue of waiting senders
    rx,             \* per call: the waiting MutexFut's oneshot receiver
    guards,         \* the calls that hold a MutexGuard
    extractCalls,   \* per call: number of runs of extract(req)
    valReq,         \* per call: the request handed to process_fn
    fwdReq,         \* per call: the request handed to service.call
    ready,          \* poll_ready: inside, or how its last run ended
    lockSeq         \* calls whose inner.lock() is pending, in request order

vars == <<scheme, stage, req, creds, valResult, downResult, outcome,
          validatorCalls, handlerCalls, lockReq, cancelledAt,
          owned, waiters, rx, guards, extractCalls, valReq, fwdReq,
          ready, lockSeq>>

----------------------------------------------------------------------------
(* Values *)

NoHeader == <<"none">>

\* Authorization header values: absent, a Basic one, a Bearer one.
Headers == {NoHeader, <<"Basic", "u", "p">>, <<"Bearer", "t">>}

Schemes == {"Basic", "Bearer"}

Pending == <<"pending">>

\* Errors a validator callback can produce.
ValidatorErrors == {<<"err", "validator", "V1">>, <<"err", "validator", "V2">>}

\* Results the downstream service future can produce.
DownstreamResults == {<<"ok", "response">>, <<"err", "downstream", "D1">>}

IsOk(res) == res[1] = "ok"

\* A sequence without the call c.
Without(q, c) == SelectSeq(q, LAMBDA d : d # c)

NoRequest == <<0, NoHeader, "none">>

\* The ServiceRequest of call c: its identity, its Authorization header and
\* its extensions, empty when the request enters the middleware.
Request(c, h) == <<c, h, "plain">>

\* The same request after a validator attached identity data to it.
Tagged(q) == <<q[1], q[2], "identity">>

\* The requests a validator callback can give back on success for the
\* request q it received: the request as it came, or with identity data
\* attached.  The callback is any F, whatever the scheme.
ReturnedRequests(q) == {q, Tagged(q)}

\* poll_ready is inside the downstream service's poll_ready, under the guard.
Holding == <<"holding">>

\* poll_ready ended in the panic of its expect.
ExpectPanic == <<"panic", "AuthenticationMiddleware was called already">>

\* poll_ready ended in a panic of the downstream service's poll_ready.
ReadyPanic == <<"panic", "downstream">>

\* What the downstream service's poll_ready can return.
ReadyResults == {<<"ready", "ok">>, Pending, <<"ready", "err", "D1">>}

----------------------------------------------------------------------------
(* T::from_service_request: the credential extractor *)

Extract(h, s) ==
    IF h = NoHeader THEN <<"err", "extract", "MissingHeader">>
    ELSE IF h[1] # s THEN <<"err", "extract", "InvalidFormat">>
    ELSE <<"ok", Tail(h)>>

----------------------------------------------------------------------------
(* futures_locks::Mutex as used through inner.lock() and the guard's drop *)
(* The mutex is the dependency imported at middleware.rs:12; its state is   *)
(* an owned flag and a FIFO queue of oneshot senders, one per pending       *)
(* MutexFut.  rx[c] is the receiver of call c: "none" (no pending MutexFut),*)
(* "open" (queued), "sent" (ownership handed over, not yet polled),         *)
(* "closed" (MutexFut dropped).                                             *)

\* A mutex state: the owned flag, the waiter queue, the receivers.
MutexState(o, w, r) == [owned |-> o, waiters |-> w, rx |-> r]

\* Faulty variant of Unlock: ownership is sent to the first listening waiter
\* but the owned flag is cleared all the same.
UnlockFrees(w, r) ==
    LET live == SelectSeq(w, LAMBDA c : r[c] = "open")
    IN  IF live = <<>> THEN MutexState(FALSE, <<>>, r)
        ELSE MutexState(FALSE, Tail(live), [r EXCEPT ![Head(live)] = "sent"])

\* Faulty variant of Unlock: the mutex goes to the waiter that came last.
UnlockLast(w, r) ==
    LET live == SelectSeq(w, LAMBDA c : r[c] = "open")
    IN  IF live = <<>> THEN MutexState(FALSE, <<>>, r)
        ELSE MutexState(TRUE, SubSeq(live, 1, Len(live) - 1),
                        [r EXCEPT ![live[Len(live)]] = "sent"])

\* Faulty variant of Unlock: the result of the send is ignored, so the
\* ownership can go to a receiver that was closed.
UnlockNoSkip(w, r) ==
    IF w = <<>> THEN MutexState(FALSE, <<>>, r)
    ELSE MutexState(TRUE, Tail(w),
                    IF r[Head(w)] = "open"
                    THEN [r EXCEPT ![Head(w)] = "sent"] ELSE r)

\* Mutex::unlock, run when a MutexGuard is dropped: hand the mutex to the
\* first waiter whose receiver still listens, skipping the others; with no
\* such waiter the mutex becomes free.
RECURSIVE Unlock(_, _)
Unlock(w, r) ==
    IF w = <<>> THEN MutexState(FALSE, <<>>, r)
    ELSE IF r[Head(w)] = "open"
         THEN MutexState(TRUE, Tail(w), [r EXCEPT ![Head(w)] = "sent"])
         ELSE Unlock(Tail(w), r)

\* Faulty variant of MutexFutDrop: a receiver that already holds the ownership
\* message is closed without releasing the mutex.
MutexFutDropLeaks(c) ==
    MutexState(owned, waiters, [rx EXCEPT ![c] = "closed"])

\* Drop of a MutexFut in state Pending: close the receiver; if ownership had
\* already been sent to it, release the mutex again, otherwise leave the
\* (now dead) sender in the queue.
MutexFutDrop(c) ==
    IF rx[c] = "sent"
    THEN Unlock(waiters, [rx EXCEPT ![c] = "closed"])
    ELSE MutexState(owned, waiters, [rx EXCEPT ![c] = "closed"])

\* Faulty variant of MutexFutPollNew: the owned flag is not consulted.
MutexFutPollNewNoCheck(c) ==
    /\ owned' = TRUE
    /\ guards' = guards \cup {c}
    /\ stage' = [stage EXCEPT ![c] = "holding"]
    /\ UNCHANGED <<waiters, rx, outcome>>

\* Faulty variant of MutexFutPollNew: try_lock in place of lock, an owned
\* mutex is reported as Err(()) and map_err(Into::into) makes it the output.
MutexFutTryLock(c) ==
    IF owned
    THEN /\ stage' = [stage EXCEPT ![c] = "done"]
         /\ outcome' = [outcome EXCEPT ![c] = <<"err", "lock", "UnitError">>]
         /\ UNCHANGED <<owned, waiters, rx, guards>>
    ELSE /\ owned' = TRUE
         /\ guards' = guards \cup {c}
         /\ stage' = [stage EXCEPT ![c] = "holding"]
         /\ UNCHANGED <<waiters, rx, outcome>>

\* inner.lock().compat().map_err(Into::into), first poll of the MutexFut:
\* take the mutex when it is not owned, otherwise queue a sender and stay
\* pending.  The MutexFut never resolves to Err(()), so map_err has nothing
\* to convert and the call's output stays open.
MutexFutPollNew(c) ==
    IF owned
    THEN /\ waiters' = Append(waiters, c)
         /\ rx' = [rx EXCEPT ![c] = "open"]
         /\ stage' = [stage EXCEPT ![c] = "waiting"]
         /\ UNCHANGED <<owned, guards, outcome>>
    ELSE /\ owned' = TRUE
         /\ guards' = guards \cup {c}
         /\ stage' = [stage EXCEPT ![c] = "holding"]
         /\ UNCHANGED <<waiters, rx, outcome>>

\* Drop of the MutexGuard held by call c.
DropGuard(c) ==
    LET m == Unlock(waiters, rx)
    IN  /\ guards' = guards \ {c}
        /\ owned' = m.owned
        /\ waiters' = m.waiters
        /\ rx' = m.rx

----------------------------------------------------------------------------
(* The future built by AuthenticationMiddleware::call *)

\* Faulty variant of and_then: `then`, the next closure runs on any output.
ThenContinues(res) == TRUE

\* The first and_then of the chain, after extract(req): the validator closure
\* runs only on an Ok output; an Err output is the output of the whole chain.
AndThenValidate(res) == IsOk(res)

\* The second and_then, after the validator: the forwarding closure runs
\* only on an Ok output; an Err output is the output of the whole chain.
AndThenForward(res) == IsOk(res)

\* What the validator callback may resolve to for a request.
ValidatorOutputs(q) ==
    {<<"ok", p>> : p \in ReturnedRequests(q)} \cup ValidatorErrors

Init ==
    /\ scheme \in Schemes
    /\ stage = [c \in Calls |-> "idle"]
    /\ req = [c \in Calls |-> NoHeader]
    /\ creds = [c \in Calls |-> <<"none">>]
    /\ valResult = [c \in Calls |-> <<"none">>]
    /\ downResult = [c \in Calls |-> <<"none">>]
    /\ outcome = [c \in Calls |-> Pending]
    /\ validatorCalls = [c \in Calls |-> 0]
    /\ handlerCalls = [c \in Calls |-> 0]
    /\ lockReq = [c \in Calls |-> FALSE]
    /\ cancelledAt = [c \in Calls |-> "no"]
    /\ owned = FALSE
    /\ waiters = <<>>
    /\ rx = [c \in Calls |-> "none"]
    /\ guards = {}
    /\ extractCalls = [c \in Calls |-> 0]
    /\ valReq = [c \in Calls |-> NoRequest]
    /\ fwdReq = [c \in Calls |-> NoRequest]
    /\ ready = <<"none">>
    /\ lockSeq = <<>>

\* call(req): build the future; nothing runs before its first poll.  call
\* and poll_ready both take &mut self, so no call is made while poll_ready
\* runs.
Call(c, h) ==
    /\ stage[c] = "idle"
    /\ ready # Holding
    /\ stage' = [stage EXCEPT ![c] = "created"]
    /\ req' = [req EXCEPT ![c] = h]
    /\ UNCHANGED <<scheme, creds, valResult, downResult, outcome,
                   validatorCalls, handlerCalls, lockReq, cancelledAt,
                   owned, waiters, rx, guards,
                   extractCalls, valReq, fwdReq, ready, lockSeq>>

\* Faulty variant of PollExtract: the mutex is taken (when free) before the
\* validator runs, and the guard stays with the pending validation.
PollExtractEagerLock(c) ==
    /\ stage[c] = "created"
    /\ LET r == Extract(req[c], scheme)
       IN  IF AndThenValidate(r)
           THEN /\ creds' = [creds EXCEPT ![c] = r[2]]
                /\ validatorCalls' = [validatorCalls EXCEPT ![c] = @ + 1]
                /\ stage' = [stage EXCEPT ![c] = "validating"]
                /\ lockReq' = [lockReq EXCEPT ![c] = TRUE]
                /\ owned' = TRUE
                /\ guards' = IF owned THEN guards ELSE guards \cup {c}
                /\ UNCHANGED outcome
           ELSE /\ stage' = [stage EXCEPT ![c] = "done"]
                /\ outcome' = [outcome EXCEPT ![c] = r]
                /\ UNCHANGED <<creds, validatorCalls, lockReq, owned, guards>>
    /\ extractCalls' = [extractCalls EXCEPT ![c] = @ + 1]
    /\ valReq' = IF AndThenValidate(Extract(req[c], scheme))
                 THEN [valReq EXCEPT ![c] = Request(c, req[c])]
                 ELSE valReq
    /\ UNCHANGED <<scheme, req, valResult, downResult, handlerCalls,
                   cancelledAt, waiters, rx,
                   fwdReq, ready, lockSeq>>

\* Faulty variant of PollExtract: the validator is given the raw header in
\* place of the credentials parsed from it.
PollExtractRawHeader(c) ==
    /\ stage[c] = "created"
    /\ LET r == Extract(req[c], scheme)
       IN  IF AndThenValidate(r)
           THEN /\ creds' = [creds EXCEPT ![c] = req[c]]
                /\ validatorCalls' = [validatorCalls EXCEPT ![c] = @ + 1]
                /\ stage' = [stage EXCEPT ![c] = "validating"]
                /\ UNCHANGED outcome
           ELSE /\ stage' = [stage EXCEPT ![c] = "done"]
                /\ outcome' = [outcome EXCEPT ![c] = r]
                /\ UNCHANGED <<creds, validatorCalls>>
    /\ extractCalls' = [extractCalls EXCEPT ![c] = @ + 1]
    /\ valReq' = IF AndThenValidate(Extract(req[c], scheme))
                 THEN [valReq EXCEPT ![c] = Request(c, req[c])]
                 ELSE valReq
    /\ UNCHANGED <<scheme, req, valResult, downResult, handlerCalls, lockReq,
                   cancelledAt, owned, waiters, rx, guards,
                   fwdReq, ready, lockSeq>>

\* First poll: extract(req) completes at once; on Ok the validator callback
\* is invoked with the request and the credentials and its future is pending.
PollExtract(c) ==
    /\ stage[c] = "created"
    /\ LET r == Extract(req[c], scheme)
       IN  IF AndThenValidate(r)
           THEN /\ creds' = [creds EXCEPT ![c] = r[2]]
                /\ validatorCalls' = [validatorCalls EXCEPT ![c] = @ + 1]
                /\ stage' = [stage EXCEPT ![c] = "validating"]
                /\ UNCHANGED outcome
           ELSE /\ stage' = [stage EXCEPT ![c] = "done"]
                /\ outcome' = [outcome EXCEPT ![c] = r]
                /\ UNCHANGED <<creds, validatorCalls>>
    /\ extractCalls' = [extractCalls EXCEPT ![c] = @ + 1]
    /\ valReq' = IF AndThenValidate(Extract(req[c], scheme))
                 THEN [valReq EXCEPT ![c] = Request(c, req[c])]
                 ELSE valReq
    /\ UNCHANGED <<scheme, req, valResult, downResult, handlerCalls, lockReq,
                   cancelledAt, owned, waiters, rx, guards,
                   fwdReq, ready, lockSeq>>

\* Faulty variant of ValidatorReturn: a validator error is replaced by one
\* fixed error of the middleware's own.
ValidatorReturnGeneric(c, r) ==
    /\ stage[c] = "validating"
    /\ valResult' = [valResult EXCEPT ![c] = r]
    /\ IF AndThenForward(r)
       THEN /\ lockReq' = [lockReq EXCEPT ![c] = TRUE]
            /\ lockSeq' = Append(lockSeq, c)
            /\ MutexFutPollNew(c)
       ELSE /\ stage' = [stage EXCEPT ![c] = "done"]
            /\ outcome' = [outcome EXCEPT ![c] = <<"err", "validator", "V1">>]
            /\ UNCHANGED <<lockReq, owned, waiters, rx, guards, lockSeq>>
    /\ UNCHANGED <<scheme, req, creds, downResult, validatorCalls,
                   handlerCalls, cancelledAt,
                   extractCalls, valReq, fwdReq, ready>>

\* Faulty variant of ValidatorReturn: a rejected call is run again from the
\* extraction instead of ending with the validator's error.
ValidatorReturnRetry(c, r) ==
    /\ stage[c] = "validating"
    /\ valResult' = [valResult EXCEPT ![c] = r]
    /\ IF AndThenForward(r)
       THEN /\ lockReq' = [lockReq EXCEPT ![c] = TRUE]
            /\ lockSeq' = Append(lockSeq, c)
            /\ MutexFutPollNew(c)
       ELSE /\ stage' = [stage EXCEPT ![c] = "created"]
            /\ UNCHANGED outcome
            /\ UNCHANGED <<lockReq, owned, waiters, rx, guards, lockSeq>>
    /\ UNCHANGED <<scheme, req, creds, downResult, validatorCalls,
                   handlerCalls, cancelledAt,
                   extractCalls, valReq, fwdReq, ready>>

\* The validator future resolves.  On Err that is the call's output; on Ok
\* the closure calls inner.lock() and the MutexFut is polled.
ValidatorReturn(c, r) ==
    /\ stage[c] = "validating"
    /\ valResult' = [valResult EXCEPT ![c] = r]
    /\ IF AndThenForward(r)
       THEN /\ lockReq' = [lockReq EXCEPT ![c] = TRUE]
            /\ lockSeq' = Append(lockSeq, c)
            /\ MutexFutPollNew(c)
       ELSE /\ stage' = [stage EXCEPT ![c] = "done"]
            /\ outcome' = [outcome EXCEPT ![c] = r]
            /\ UNCHANGED <<lockReq, owned, waiters, rx, guards, lockSeq>>
    /\ UNCHANGED <<scheme, req, creds, downResult, validatorCalls,
                   handlerCalls, cancelledAt,
                   extractCalls, valReq, fwdReq, ready>>

\* Poll of a pending MutexFut whose receiver got the ownership message.
PollWaiting(c) ==
    /\ stage[c] = "waiting"
    /\ rx[c] = "sent"
    /\ stage' = [stage EXCEPT ![c] = "holding"]
    /\ rx' = [rx EXCEPT ![c] = "none"]
    /\ guards' = guards \cup {c}
    /\ UNCHANGED <<scheme, req, creds, valResult, downResult, outcome,
                   validatorCalls, handlerCalls, lockReq, cancelledAt,
                   owned, waiters,
                   extractCalls, valReq, fwdReq, ready, lockSeq>>

\* Faulty variant of Dispatch: the guard is moved into the downstream future
\* instead of being dropped when the closure returns.
DispatchKeepsGuard(c) ==
    /\ stage[c] = "holding"
    /\ c \in guards
    /\ handlerCalls' = [handlerCalls EXCEPT ![c] = @ + 1]
    /\ stage' = [stage EXCEPT ![c] = "dispatched"]
    /\ fwdReq' = [fwdReq EXCEPT ![c] = valResult[c][2]]
    /\ lockSeq' = Without(lockSeq, c)
    /\ UNCHANGED <<scheme, req, creds, valResult, downResult, outcome,
                   validatorCalls, lockReq, cancelledAt,
                   owned, waiters, rx, guards,
                   extractCalls, valReq, ready>>

\* Faulty variant of Dispatch: the downstream service gets the request as it
\* was before validation, not the one the validator gave back.
DispatchOriginal(c) ==
    /\ stage[c] = "holding"
    /\ c \in guards
    /\ handlerCalls' = [handlerCalls EXCEPT ![c] = @ + 1]
    /\ stage' = [stage EXCEPT ![c] = "dispatched"]
    /\ DropGuard(c)
    /\ fwdReq' = [fwdReq EXCEPT ![c] = valReq[c]]
    /\ lockSeq' = Without(lockSeq, c)
    /\ UNCHANGED <<scheme, req, creds, valResult, downResult, outcome,
                   validatorCalls, lockReq, cancelledAt,
                   extractCalls, valReq, ready>>

\* |mut service| service.call(req): the downstream service is invoked under
\* the guard, its future is returned and the guard is dropped as the closure
\* returns.
Dispatch(c) ==
    /\ stage[c] = "holding"
    /\ c \in guards
    /\ handlerCalls' = [handlerCalls EXCEPT ![c] = @ + 1]
    /\ stage' = [stage EXCEPT ![c] = "dispatched"]
    /\ DropGuard(c)
    /\ fwdReq' = [fwdReq EXCEPT ![c] = valResult[c][2]]
    /\ lockSeq' = Without(lockSeq, c)
    /\ UNCHANGED <<scheme, req, creds, valResult, downResult, outcome,
                   validatorCalls, lockReq, cancelledAt,
                   extractCalls, valReq, ready>>

\* service.call(req) panics: unwinding drops the guard.
DispatchPanic(c) ==
    /\ stage[c] = "holding"
    /\ c \in guards
    /\ handlerCalls' = [handlerCalls EXCEPT ![c] = @ + 1]
    /\ stage' = [stage EXCEPT ![c] = "panicked"]
    /\ DropGuard(c)
    /\ fwdReq' = [fwdReq EXCEPT ![c] = valResult[c][2]]
    /\ lockSeq' = Without(lockSeq, c)
    /\ UNCHANGED <<scheme, req, creds, valResult, downResult, outcome,
                   validatorCalls, lockReq, cancelledAt,
                   extractCalls, valReq, ready>>

\* Faulty variant of DownstreamReturn: a downstream error is swallowed and
\* answered with a response.
DownstreamReturnSwallow(c, r) ==
    /\ stage[c] = "dispatched"
    /\ downResult' = [downResult EXCEPT ![c] = r]
    /\ outcome' = [outcome EXCEPT ![c] =
                      IF IsOk(r) THEN r ELSE <<"ok", "response">>]
    /\ stage' = [stage EXCEPT ![c] = "done"]
    /\ UNCHANGED <<scheme, req, creds, valResult, validatorCalls,
                   handlerCalls, lockReq, cancelledAt,
                   owned, waiters, rx, guards,
                   extractCalls, valReq, fwdReq, ready, lockSeq>>

\* Faulty variant of DownstreamReturn: state kept across calls; once a
\* downstream error has been seen, every later call is answered with it.
DownstreamReturnSticky(c, r) ==
    /\ stage[c] = "dispatched"
    /\ downResult' = [downResult EXCEPT ![c] = r]
    /\ outcome' = [outcome EXCEPT ![c] =
                      IF \E d \in Calls : downResult[d][1] = "err"
                      THEN <<"err", "downstream", "D1">> ELSE r]
    /\ stage' = [stage EXCEPT ![c] = "done"]
    /\ UNCHANGED <<scheme, req, creds, valResult, validatorCalls,
                   handlerCalls, lockReq, cancelledAt,
                   owned, waiters, rx, guards,
                   extractCalls, valReq, fwdReq, ready, lockSeq>>

\* The downstream future resolves; its output is the output of the chain.
DownstreamReturn(c, r) ==
    /\ stage[c] = "dispatched"
    /\ downResult' = [downResult EXCEPT ![c] = r]
    /\ outcome' = [outcome EXCEPT ![c] = r]
    /\ stage' = [stage EXCEPT ![c] = "done"]
    /\ UNCHANGED <<scheme, req, creds, valResult, validatorCalls,
                   handlerCalls, lockReq, cancelledAt,
                   owned, waiters, rx, guards,
                   extractCalls, valReq, fwdReq, ready, lockSeq>>

\* The call's future is dropped at a suspension point (or before its first
\* poll).  Only a pending MutexFut touches the mutex when dropped.
Cancel(c) ==
    /\ stage[c] \in {"created", "validating", "waiting", "dispatched"}
    /\ cancelledAt' = [cancelledAt EXCEPT ![c] = stage[c]]
    /\ stage' = [stage EXCEPT ![c] = "cancelled"]
    /\ IF stage[c] = "waiting"
       THEN LET m == MutexFutDrop(c)
            IN  /\ owned' = m.owned
                /\ waiters' = m.waiters
                /\ rx' = m.rx
       ELSE UNCHANGED <<owned, waiters, rx>>
    /\ lockSeq' = Without(lockSeq, c)
    /\ UNCHANGED <<scheme, req, creds, valResult, downResult, outcome,
                   validatorCalls, handlerCalls, lockReq, guards,
                   extractCalls, valReq, fwdReq, ready>>

\* Mutex::try_lock: Err(()) on an owned mutex, otherwise the guard.
TryLock(o) == IF o THEN <<"err", "lock", "owned">> ELSE <<"ok", "guard">>

\* poll_ready, first part: try_lock().expect(..).  On an owned mutex the
\* expect panics and poll_ready is left without a guard; otherwise
\* poll_ready takes the mutex and enters the downstream service's own
\* poll_ready under the guard.  The panic leaves no trace in the instance.
PollReadyBegin ==
    /\ ready # Holding
    /\ IF IsOk(TryLock(owned))
       THEN /\ owned' = TRUE
            /\ ready' = Holding
       ELSE /\ ready' = ExpectPanic
            /\ UNCHANGED owned
    /\ UNCHANGED <<scheme, stage, req, creds, valResult, downResult, outcome,
                   validatorCalls, handlerCalls, lockReq, cancelledAt,
                   waiters, rx, guards, extractCalls, valReq, fwdReq, lockSeq>>

\* poll_ready, second part: the downstream service's poll_ready returns r,
\* which is what poll_ready returns, and the guard is dropped at the end of
\* the statement.
PollReadyEnd(r) ==
    /\ ready = Holding
    /\ ready' = r
    /\ LET m == Unlock(waiters, rx)
       IN  /\ owned' = m.owned
           /\ waiters' = m.waiters
           /\ rx' = m.rx
    /\ UNCHANGED <<scheme, stage, req, creds, valResult, downResult, outcome,
                   validatorCalls, handlerCalls, lockReq, cancelledAt,
                   guards, extractCalls, valReq, fwdReq, lockSeq>>

\* The downstream service's poll_ready panics: unwinding drops the guard.
PollReadyPanic ==
    /\ ready = Holding
    /\ ready' = ReadyPanic
    /\ LET m == Unlock(waiters, rx)
       IN  /\ owned' = m.owned
           /\ waiters' = m.waiters
           /\ rx' = m.rx
    /\ UNCHANGED <<scheme, stage, req, creds, valResult, downResult, outcome,
                   validatorCalls, handlerCalls, lockReq, cancelledAt,
                   guards, extractCalls, valReq, fwdReq, lockSeq>>

Next ==
    \/ PollReadyBegin
    \/ \E r \in ReadyResults : PollReadyEnd(r)
    \/ PollReadyPanic
    \/ \E c \in Calls :
        \/ \E h \in Headers : Call(c, h)
        \/ PollExtract(c)
        \/ \E r \in ValidatorOutputs(valReq[c]) : ValidatorReturn(c, r)
        \/ PollWaiting(c)
        \/ Dispatch(c)
        \/ DispatchPanic(c)
        \/ \E r \in DownstreamResults : DownstreamReturn(c, r)
        \/ Cancel(c)

Spec == Init /\ [][Next]_vars

\* Scheduling: the executor polls again a MutexFut whose receiver was sent
\* the ownership message (the send wakes its task), a call to service.call
\* that has been entered under the guard does not run forever, and neither
\* does the downstream service's poll_ready (each step stays enabled until
\* the function returns or panics, so fairness to the return is enough).
\* Nothing is assumed about validators or downstream futures ever resolving,
\* nor about futures not being dropped.
Fairness ==
    /\ \A c \in Calls : WF_vars(PollWaiting(c)) /\ WF_vars(Dispatch(c))
    /\ WF_vars(\E r \in ReadyResults : PollReadyEnd(r))

FairSpec == Spec /\ Fairness

----------------------------------------------------------------------------
(* Derived sets used by the properties *)

InQueue(c) == \E i \in 1..Len(waiters) : waiters[i] = c

\* Calls that own the mutex: through a guard, or through an ownership
\* message already sent to their pending MutexFut.
Handed == {c \in Calls : stage[c] = "waiting" /\ rx[c] = "sent"}

Owners == guards \cup Handed

\* poll_ready owns the mutex.
ReadyHolds == ready = Holding

\* Calls inside the dispatch step: the guard is theirs and service.call has
\* not returned yet.
Dispatching == {c \in Calls : stage[c] = "holding"}

\* Downstream invocations that have started and have not completed.
InFlight == {c \in Calls : handlerCalls[c] > 0 /\ stage[c] = "dispatched"}

IsErr(res) == res[1] = "err"

----------------------------------------------------------------------------
(* Properties *)

\* C1: the downstream handler has been invoked for a call (or the call is in
\* the dispatch step) only if the validator callback was invoked for that
\* call and resolved to Ok; a call that is not started, extracting,
\* validating, rejected by the validator or cancelled before or during
\* validation has no downstream invocation.
C1_HandlerOnlyAfterValidation ==
    \A c \in Calls :
        /\ (handlerCalls[c] > 0 \/ stage[c] = "holding" \/ c \in guards)
              => (validatorCalls[c] > 0 /\ IsOk(valResult[c]))
        /\ (stage[c] \in {"idle", "created", "validating"}
              \/ cancelledAt[c] \in {"created", "validating"}
              \/ IsErr(valResult[c]))
              => (handlerCalls[c] = 0 /\ stage[c] # "holding")

\* C1 witness: one call has been dispatched after a successful validation
\* while another call's validation is still pending.
C1_Witness ==
    \E a, b \in Calls :
        /\ a # b
        /\ handlerCalls[a] = 1 /\ IsOk(valResult[a])
        /\ stage[b] = "validating"

\* C2: a call whose request has no Authorization header never invokes the
\* validator nor the downstream handler, never asks for the lock, and when
\* it ends it ends with the extraction error MissingHeader.
C2_MissingHeaderShortCircuits ==
    \A c \in Calls :
        (stage[c] # "idle" /\ req[c] = NoHeader) =>
            /\ validatorCalls[c] = 0
            /\ handlerCalls[c] = 0
            /\ ~lockReq[c]
            /\ stage[c] \in {"created", "done", "cancelled"}
            /\ stage[c] = "done"
                  => outcome[c] = <<"err", "extract", "MissingHeader">>
            /\ stage[c] # "done" => outcome[c] = Pending

\* C2 witness: a call without the header has ended with MissingHeader.
C2_Witness ==
    \E c \in Calls :
        /\ req[c] = NoHeader
        /\ stage[c] = "done"
        /\ outcome[c] = <<"err", "extract", "MissingHeader">>

\* C3: when the validator resolved to an error, the call's output is that
\* very error, the call never asked for the handler lock (no MutexFut, no
\* queue entry, no guard) and the downstream handler was not invoked for it.
C3_ValidatorErrorIsOutcome ==
    \A c \in Calls :
        IsErr(valResult[c]) =>
            /\ stage[c] = "done"
            /\ outcome[c] = valResult[c]
            /\ ~lockReq[c]
            /\ rx[c] = "none" /\ ~InQueue(c) /\ c \notin guards
            /\ handlerCalls[c] = 0

\* C3 witness: two calls were rejected by the validator with different
\* errors and each ended with its own.
C3_Witness ==
    \E a, b \in Calls :
        /\ valResult[a] = <<"err", "validator", "V1">>
        /\ valResult[b] = <<"err", "validator", "V2">>
        /\ outcome[a] = valResult[a]
        /\ outcome[b] = valResult[b]

\* C4, as stated: the downstream invocations that have started and not yet
\* completed never number more than one (the lock would be held across the
\* whole downstream call).
C4_AtMostOneInFlight ==
    Cardinality(InFlight) <= 1

\* C4, amended: the lock serializes the dispatch step only.  At most one call
\* is inside service.call under the guard at any time, and a call whose
\* downstream invocation is pending is never among them.
C4_DispatchSerialized ==
    /\ Cardinality(Dispatching) <= 1
    /\ Dispatching \cap InFlight = {}
    /\ Dispatching # {} => owned

\* C4 witness: two validated calls, one with its downstream invocation
\* pending, the other inside the dispatch step at the same time.
C4_Witness ==
    \E a, b \in Calls :
        /\ a # b
        /\ a \in InFlight
        /\ b \in Dispatching
        /\ IsOk(valResult[a]) /\ IsOk(valResult[b])

\* C5: at most one call owns the handler lock at any time, counting both
\* guard holders and a waiting call to which ownership has been handed, and
\* none does while poll_ready owns it; a call's guard exists only on an
\* owned mutex and only in the dispatch step.
C5_SingleLockOwner ==
    /\ Cardinality(Owners) <= 1
    /\ ReadyHolds => Owners = {}
    /\ Owners # {} => owned
    /\ guards \subseteq Dispatching

\* C5 witness: the lock has been handed by a dispatched call to a waiting
\* call, while a third call waits in the queue.
C5_Witness ==
    \E a, b, c \in Calls :
        /\ stage[a] = "dispatched"
        /\ b \in Handed
        /\ stage[c] = "waiting" /\ rx[c] = "open" /\ InQueue(c)
        /\ guards = {}

\* C6: a call whose downstream invocation has been dispatched and is still
\* pending does not own the lock: it has no guard, and if the mutex is owned
\* at all it is owned by another call or by poll_ready.
C6_ReleasedAtDispatch ==
    \A c \in Calls :
        stage[c] = "dispatched" =>
            /\ c \notin Owners
            /\ owned => (ReadyHolds \/ \E d \in Calls \ {c} : d \in Owners)

\* C6 witness: while one call's downstream invocation is pending, a second
\* call has acquired the lock and been dispatched as well.
C6_Witness ==
    \E a, b \in Calls :
        /\ a # b
        /\ stage[a] = "dispatched" /\ stage[b] = "dispatched"
        /\ downResult[a] = <<"none">> /\ downResult[b] = <<"none">>
        /\ ~owned

\* C7: a call whose future was dropped while its validator was pending has
\* left no trace on the handler lock: it never asked for it, holds no guard,
\* has no receiver and no queue entry; the mutex is then either free or
\* owned by another call that is still running or by poll_ready, so the lock
\* stays obtainable for later calls.
C7_CancelInValidationLeavesLock ==
    \A c \in Calls :
        cancelledAt[c] = "validating" =>
            /\ ~lockReq[c]
            /\ c \notin guards
            /\ rx[c] = "none"
            /\ ~InQueue(c)
            /\ handlerCalls[c] = 0
            /\ owned => \/ ReadyHolds
                        \/ \E d \in Calls \ {c} :
                              d \in Owners /\ stage[d] \in {"holding", "waiting"}

\* C7 witness: after one call was cancelled during validation, a later call
\* passed validation, acquired the lock and was dispatched.
C7_Witness ==
    \E a, b \in Calls :
        /\ a < b
        /\ cancelledAt[a] = "validating"
        /\ IsOk(valResult[b])
        /\ handlerCalls[b] = 1
        /\ stage[b] = "dispatched"

\* C8: the handler is never left locked by a call that has gone.  The mutex
\* is owned exactly when a running call owns it (in the dispatch step, or a
\* waiting call to which ownership was handed) or poll_ready is inside the
\* downstream service's poll_ready; a cancelled, faulted or
\* finished call owns nothing; a free mutex has an empty queue; and every
\* running waiter that was not handed the lock is still in the queue, so the
\* next release reaches it.
C8_LockNeverOrphaned ==
    /\ owned <=> (Owners # {} \/ ReadyHolds)
    /\ \A c \in Owners : stage[c] \in {"holding", "waiting"}
    /\ \A c \in Calls :
          stage[c] \in {"cancelled", "panicked", "done", "dispatched"}
             => (c \notin Owners /\ rx[c] \in {"none", "closed"})
    /\ ~owned => waiters = <<>>
    /\ \A c \in Calls :
          (stage[c] = "waiting" /\ rx[c] = "open") => InQueue(c)

\* C8 witness: the dispatch of one call faulted while two calls waited, the
\* first of them already cancelled: the cancelled waiter was skipped and the
\* lock was handed to the next one.
C8_Witness ==
    \E a, b, c \in Calls :
        /\ stage[a] = "panicked"
        /\ cancelledAt[b] = "waiting" /\ rx[b] = "closed"
        /\ c \in Handed
        /\ waiters = <<>>
        /\ owned

\* C9: once a call's downstream future has resolved, the call's output is
\* exactly that result, response or error; and a finished call that reached
\* the downstream handler has no other output than the handler's.
C9_DownstreamPassThrough ==
    \A c \in Calls :
        /\ downResult[c] # <<"none">>
              => (outcome[c] = downResult[c] /\ stage[c] = "done")
        /\ (stage[c] = "done" /\ handlerCalls[c] > 0)
              => (outcome[c] = downResult[c] /\ outcome[c] \in DownstreamResults)

\* C9 witness: one call ended with the downstream error and another with the
\* downstream response.
C9_Witness ==
    \E a, b \in Calls :
        /\ downResult[a] = <<"err", "downstream", "D1">>
        /\ outcome[a] = <<"err", "downstream", "D1">>
        /\ downResult[b] = <<"ok", "response">>
        /\ outcome[b] = <<"ok", "response">>

\* C10: every error output of a call is the extraction error of its request
\* (validator and handler not invoked), or the error its validator resolved
\* to (handler not invoked), or the error its downstream future resolved to;
\* and a call that passed validation has no output at all before its
\* downstream future resolves, so the lock step adds no failure.
C10_ErrorSources ==
    \A c \in Calls :
        /\ IsErr(outcome[c]) =>
              \/ /\ outcome[c] = Extract(req[c], scheme)
                 /\ validatorCalls[c] = 0 /\ handlerCalls[c] = 0
              \/ /\ outcome[c] = valResult[c]
                 /\ validatorCalls[c] = 1 /\ handlerCalls[c] = 0
              \/ /\ outcome[c] = downResult[c]
                 /\ IsOk(valResult[c]) /\ handlerCalls[c] = 1
        /\ (IsOk(valResult[c]) /\ downResult[c] = <<"none">>)
              => outcome[c] = Pending

\* C10 witness: three calls ended with an error each, one from extraction,
\* one from the validator and one from the downstream handler.
C10_Witness ==
    \E a, b, c \in Calls :
        /\ outcome[a][1] = "err" /\ outcome[a][2] = "extract"
        /\ outcome[b][1] = "err" /\ outcome[b][2] = "validator"
        /\ outcome[c][1] = "err" /\ outcome[c][2] = "downstream"

\* C11: the validator callback has been invoked for a call only if the
\* extraction of that call's request succeeded, and it was handed that
\* call's own request together with exactly the credentials the extractor
\* produced from it; a call whose extraction fails (missing or malformed
\* header) never invokes the validator.
C11_ValidatorGetsExtractedCredentials ==
    \A c \in Calls :
        /\ validatorCalls[c] > 0 =>
              /\ extractCalls[c] > 0
              /\ IsOk(Extract(req[c], scheme))
              /\ creds[c] = Extract(req[c], scheme)[2]
              /\ valReq[c] = Request(c, req[c])
        /\ (extractCalls[c] > 0 /\ IsErr(Extract(req[c], scheme))) =>
              /\ validatorCalls[c] = 0
              /\ creds[c] = <<"none">>
              /\ valReq[c] = NoRequest
              /\ valResult[c] = <<"none">>

\* C11 witness: one call's validator runs with the credentials parsed from
\* its header, while a call with a malformed header and a call without
\* header have ended without a validator invocation.
C11_Witness ==
    \E a, b, c \in Calls :
        /\ stage[a] = "validating"
        /\ creds[a] = Tail(req[a]) /\ creds[a] # <<"none">>
        /\ outcome[b] = <<"err", "extract", "InvalidFormat">>
        /\ outcome[c] = <<"err", "extract", "MissingHeader">>
        /\ validatorCalls[b] = 0 /\ validatorCalls[c] = 0

\* C12: over the life of a call the extraction runs at most once, the
\* validator callback is invoked at most once and the downstream handler is
\* invoked at most once; a later stage never runs more often than the
\* stage before it.
C12_NoRetries ==
    \A c \in Calls :
        /\ extractCalls[c] <= 1
        /\ validatorCalls[c] <= extractCalls[c]
        /\ handlerCalls[c] <= validatorCalls[c]

\* C12 witness: one call went through extraction, validation and the
\* downstream handler once each and has ended, next to a call rejected by
\* the validator after one extraction and one validation.
C12_Witness ==
    \E a, b \in Calls :
        /\ stage[a] = "done"
        /\ extractCalls[a] = 1 /\ validatorCalls[a] = 1 /\ handlerCalls[a] = 1
        /\ stage[b] = "done" /\ IsErr(valResult[b])
        /\ extractCalls[b] = 1 /\ validatorCalls[b] = 1 /\ handlerCalls[b] = 0

\* C16: the request handed to the downstream handler is the request the
\* validator gave back on success, which belongs to the same call; when the
\* validator changed the request, the handler does not get the request as it
\* entered the middleware.
C16_ForwardsValidatedRequest ==
    \A c \in Calls :
        /\ handlerCalls[c] > 0 =>
              /\ IsOk(valResult[c])
              /\ fwdReq[c] = valResult[c][2]
              /\ fwdReq[c][1] = c
              /\ valResult[c][2] # valReq[c] => fwdReq[c] # valReq[c]
        /\ handlerCalls[c] = 0 => fwdReq[c] = NoRequest

\* C16 witness: the validator gave back a request that differs from the one
\* it received, and the downstream handler was invoked with it, while
\* another call's request is waiting to be forwarded.
C16_Witness ==
    \E a, b \in Calls :
        /\ a # b
        /\ handlerCalls[a] = 1
        /\ valResult[a][2] # valReq[a]
        /\ fwdReq[a] = Tagged(valReq[a])
        /\ stage[b] \in {"waiting", "holding"}

\* The output a finished call must have if it depends on nothing but the
\* call's own request, its validator's verdict and its downstream result.
OwnOutcome(c) ==
    IF IsErr(Extract(req[c], scheme)) THEN Extract(req[c], scheme)
    ELSE IF IsErr(valResult[c]) THEN valResult[c]
    ELSE downResult[c]

\* C13: no hidden state links the calls.  A finished call's output is the
\* one its own request, verdict and downstream result give; two finished
\* calls with the same request, the same verdict and the same downstream
\* result have the same output and the same numbers of validator and handler
\* invocations; and a finished call with a valid request that the validator
\* accepted was forwarded, the handler being invoked exactly once for it.
C13_NoCrossCallState ==
    /\ \A c \in Calls :
          stage[c] = "done" =>
             /\ outcome[c] = OwnOutcome(c)
             /\ (IsOk(Extract(req[c], scheme)) /\ IsOk(valResult[c]))
                   => (handlerCalls[c] = 1 /\ fwdReq[c][1] = c)
    /\ \A a, b \in Calls :
          (/\ stage[a] = "done" /\ stage[b] = "done"
           /\ req[a] = req[b]
           /\ valResult[a][1] = valResult[b][1]
           /\ IsErr(valResult[a]) => valResult[a] = valResult[b]
           /\ downResult[a] = downResult[b])
          => /\ outcome[a] = outcome[b]
             /\ validatorCalls[a] = validatorCalls[b]
             /\ handlerCalls[a] = handlerCalls[b]

\* C13 witness: two calls with the same valid request, both accepted, have
\* both ended with the downstream response after one handler invocation
\* each, although a third call ended with a downstream error.
C13_Witness ==
    \E a, b, c \in Calls :
        /\ a # b
        /\ req[a] = req[b]
        /\ stage[a] = "done" /\ stage[b] = "done"
        /\ IsOk(valResult[a]) /\ IsOk(valResult[b])
        /\ handlerCalls[a] = 1 /\ handlerCalls[b] = 1
        /\ outcome[a] = <<"ok", "response">>
        /\ outcome[b] = <<"ok", "response">>
        /\ outcome[c] = <<"err", "downstream", "D1">>

\* C15: a call that is not started, extracting or validating has nothing to
\* do with the handler lock: it owns no guard, was not handed the lock, has
\* no receiver and no queue entry and has not called inner.lock(); so an
\* owned mutex is always owned by a call that passed validation or by
\* poll_ready, and calls with a pending validator leave the mutex free for
\* the others.
C15_ValidationOutsideLock ==
    /\ \A c \in Calls :
          stage[c] \in {"idle", "created", "validating"} =>
             /\ c \notin Owners
             /\ ~InQueue(c)
             /\ rx[c] = "none"
             /\ ~lockReq[c]
    /\ owned => (ReadyHolds \/ \E d \in Calls : d \in Owners /\ IsOk(valResult[d]))
    /\ (\A c \in Calls : ~lockReq[c] \/ stage[c] \in {"dispatched", "done",
                                                      "cancelled", "panicked"})
          => /\ owned <=> ReadyHolds
             /\ \A c \in Calls : InQueue(c) => rx[c] = "closed"

\* C15 witness: while one call's validator stays pending, a second call has
\* been validated, dispatched and has ended, and a third one has been
\* validated and dispatched.
C15_Witness ==
    \E a, b, c \in Calls :
        /\ stage[a] = "validating"
        /\ stage[b] = "done" /\ handlerCalls[b] = 1
        /\ stage[c] = "dispatched" /\ handlerCalls[c] = 1

\* C17: poll_ready never reaches its failure branch: whenever the server
\* polls the middleware for readiness, try_lock succeeds and the expect
\* ("AuthenticationMiddleware was called already") does not panic.
C17_PollReadyNeverPanics ==
    ready # ExpectPanic

\* C14: entry into the downstream handler is first come, first served on
\* the lock request.  Whenever service.call is invoked for a call, that call
\* is the oldest of the pending lock requests: every call that called
\* inner.lock() before it and was not cancelled has been dispatched already.
C14_FirstComeFirstServed ==
    [][\A b \in Calls :
          handlerCalls'[b] > handlerCalls[b]
             => (lockSeq # <<>> /\ Head(lockSeq) = b)]_vars

\* C14 witness: three calls asked for the lock one after the other; the
\* first has been dispatched, the second has the lock now and the third
\* waits behind it.
C14_Witness ==
    \E a, b, c \in Calls :
        /\ stage[a] = "dispatched"
        /\ stage[b] = "holding"
        /\ stage[c] = "waiting" /\ rx[c] = "open"
        /\ lockSeq = <<b, c>>

\* C18: under fair scheduling every call that passed validation, and so
\* asked for the lock, is eventually dispatched to the downstream handler
\* unless its own future is dropped first, whether or not the downstream
\* invocations dispatched before it ever complete and whatever happens to
\* the other waiting calls.
C18_ValidatedEventuallyDispatched ==
    \A c \in Calls :
        lockReq[c] ~> (handlerCalls[c] > 0 \/ stage[c] = "cancelled")

\* C18 witness: a call was dispatched after having waited for the lock,
\* while the call dispatched before it is still pending downstream and
\* another waiter was cancelled in the queue.
C18_Witness ==
    \E a, b, c \in Calls :
        /\ stage[a] = "dispatched" /\ downResult[a] = <<"none">>
        /\ cancelledAt[b] = "waiting"
        /\ stage[c] = "dispatched" /\ handlerCalls[c] = 1
        /\ a # c

====
